---- MODULE Spec2Model ----
(***************************************************************************)
(* Model of model/Time Series/Data_Preparation.py: the shared source table *)
(* bottle_df and the function preprocess_data (column pruning, removal of  *)
(* rows without a Salinity value, classification of the feature columns,   *)
(* imputation, scaling, reassembly and the final completeness assertion).  *)
(*                                                                         *)
(* Numbers are exact rationals [n |-> numerator, d |-> denominator > 0] in *)
(* lowest terms; a missing cell is NaN.  A standardised value              *)
(* (x - mean) / std is kept exactly as [sgn, sq]: its sign and its square. *)
(* Percentages are computed in float64, digit for digit, and held as       *)
(* integers in hundredths of a percent, the resolution round(..., 2)       *)
(* leaves.                                                                 *)
(***************************************************************************)
EXTENDS Integers, Sequences, FiniteSets, TLC

(* ------------------------------ bounds --------------------------------- *)

\* Largest number of rows of a source table.
MaxRows == 9

\* Smallest number of rows of a source table.
SmallRows == 3

(* --------------------------- exact numbers ----------------------------- *)

NaN == [nan |-> TRUE]

Abs(x) == IF x < 0 THEN -x ELSE x

Sign(x) == IF x > 0 THEN 1 ELSE IF x < 0 THEN -1 ELSE 0

RECURSIVE GCD(_, _)
GCD(a, b) == IF b = 0 THEN a ELSE GCD(b, a % b)

\* The rational n/d (d > 0) in lowest terms.
Frac(n, d) == LET g == GCD(Abs(n), d) IN [n |-> n \div g, d |-> d \div g]

Num(v) == [n |-> v, d |-> 1]

FracAdd(a, b) ==
    LET g == GCD(a.d, b.d)
    IN  Frac(a.n * (b.d \div g) + b.n * (a.d \div g), (a.d \div g) * b.d)

FracNeg(a) == [n |-> -a.n, d |-> a.d]

FracSub(a, b) == FracAdd(a, FracNeg(b))

\* Product, cancelling across before multiplying.
FracMul(a, b) ==
    LET g1 == GCD(Abs(a.n), b.d)
        g2 == GCD(Abs(b.n), a.d)
    IN  [n |-> (a.n \div g1) * (b.n \div g2), d |-> (a.d \div g2) * (b.d \div g1)]

\* Quotient a / b for b # 0.
FracDiv(a, b) ==
    IF b.n > 0 THEN FracMul(a, [n |-> b.d, d |-> b.n])
               ELSE FracMul(a, [n |-> -b.d, d |-> -b.n])

\* a < b, by cross multiplication after cancelling the common factors.
FracLess(a, b) ==
    IF a.n = 0 \/ b.n = 0 \/ Sign(a.n) # Sign(b.n) THEN a.n < b.n
    ELSE LET gn == GCD(Abs(a.n), Abs(b.n))
             gd == GCD(a.d, b.d)
         IN  (a.n \div gn) * (b.d \div gd) < (b.n \div gn) * (a.d \div gd)

FracLeq(a, b) == a = b \/ FracLess(a, b)

RECURSIVE FracSum(_)
FracSum(s) == IF s = <<>> THEN Num(0) ELSE FracAdd(Head(s), FracSum(Tail(s)))

Range(s) == {s[i] : i \in 1..Len(s)}

(* --------------------------- double precision -------------------------- *)
\* A non-negative float64 (zero or normal), held exactly: its 53 binary
\* digits as the integer (a * Limb + b) * Limb + c, the limbs b and c of 18
\* digits and a of 17 with the leading one a 1 (all limbs 0 for 0.0), times
\* 2^e.

\* 2^18: the size of a limb.
Limb == 262144

\* 2^16: the leading digit of the limb a.
Top == 65536

Double(a, b, c, e) == [a |-> a, b |-> b, c |-> c, e |-> e]

Zero == Double(0, 0, 0, 0)

\* The limbs after the carries out of c and b; a carry out of all 53 digits
\* leaves 2^53, held as 2^52 times 2^(e + 1).
Carry(a, b, c, e) ==
    LET b1 == b + c \div Limb
        a1 == a + b1 \div Limb
    IN  IF a1 = 2 * Top THEN Double(Top, 0, 0, e + 1)
        ELSE Double(a1, b1 % Limb, c % Limb, e)

\* The double nearest to ((a * Limb + b) * Limb + c) * 2^e, for Top <= a <
\* 2^30: the digits past the 53rd are dropped, more than half a unit of the
\* last digit kept rounding up and half a unit rounding to the even digit.
RoundToDouble(a, b, c, e) ==
    LET s    == CHOOSE k \in 0..13 : Top <= a \div 2^k /\ a \div 2^k < 2 * Top
        p    == 2^s
        drop == c % p
        c2   == (b % p) * (Limb \div p) + c \div p
        b2   == (a % p) * (Limb \div p) + b \div p
        up   == 2 * drop > p \/ (2 * drop = p /\ c2 % 2 = 1)
    IN  Carry(a \div p, b2, IF up THEN c2 + 1 ELSE c2, e + s)

\* Long division: w more binary digits of the quotient x.q, x.rem the
\* remainder so far.
Digits(x, rows, w) ==
    [q |-> x.q * 2^w + (x.rem * 2^w) \div rows, rem |-> (x.rem * 2^w) % rows]

\* The double n / rows, for integers 0 <= n <= rows < 2^22: the first 53
\* digits of the quotient, rounded by the remainder they leave.
DoubleDiv(n, rows) ==
    IF n = 0 THEN Zero
    ELSE LET k  == CHOOSE i \in 0..22 : n * 2^i >= rows
             a  == Digits(Digits([q |-> 1, rem |-> n * 2^k - rows], rows, 8), rows, 8)
             b  == Digits(Digits([q |-> 0, rem |-> a.rem], rows, 9), rows, 9)
             c  == Digits(Digits([q |-> 0, rem |-> b.rem], rows, 9), rows, 9)
             up == 2 * c.rem > rows \/ (2 * c.rem = rows /\ c.q % 2 = 1)
         IN  Carry(a.q, b.q, IF up THEN c.q + 1 ELSE c.q, -k - 52)

\* The double x * k, for an integer 0 < k < 2^13.
DoubleTimes(x, k) ==
    IF x = Zero THEN Zero
    ELSE LET c == x.c * k
             b == x.b * k + c \div Limb
             a == x.a * k + b \div Limb
         IN  RoundToDouble(a, b % Limb, c % Limb, x.e)

\* numpy.rint of a double below 2^17 and not below 2^-10: the nearest
\* integer, a value half way going to the even one.
Rint(x) ==
    IF x = Zero THEN 0
    ELSE LET h    == 2^(-x.e - 36)
             int  == x.a \div h
             frac == x.a % h
             up   == \/ 2 * frac > h
                     \/ 2 * frac = h /\ (x.b # 0 \/ x.c # 0 \/ int % 2 = 1)
         IN  IF up THEN int + 1 ELSE int

(* ----------------------------- data frames ----------------------------- *)
\* A data frame: its row labels (index) and its columns in order, each a
\* name and one value per row.

EmptyFrame == [index |-> <<>>, cols |-> <<>>]

NRows(df) == Len(df.index)

Columns(df) == [i \in 1..Len(df.cols) |-> df.cols[i].name]

HasColumn(df, name) == \E i \in 1..Len(df.cols) : df.cols[i].name = name

Col(df, name) == (CHOOSE c \in Range(df.cols) : c.name = name).vals

\* The non-missing values of a column.
NotNa(vals) == SelectSeq(vals, LAMBDA v : v # NaN)

\* Series.isna().sum() of one column.
IsNaSum(vals) == Len(vals) - Len(NotNa(vals))

\* Mutant: nunique(dropna=False), a missing value counted as one more value.
NUniqueWithNa(vals) == Cardinality(Range(vals))

\* Series.nunique(): the number of distinct non-missing values.
NUnique(vals) == Cardinality(Range(NotNa(vals)))

\* The elements of s at the positions pos, in the order of pos.
Take(s, pos) == [i \in 1..Len(pos) |-> s[pos[i]]]

\* The rows at the positions pos.
TakeRows(df, pos) ==
    [index |-> Take(df.index, pos),
     cols  |-> [i \in 1..Len(df.cols) |->
                  [name |-> df.cols[i].name, vals |-> Take(df.cols[i].vals, pos)]]]

\* DataFrame.drop(names, axis=1).
DropColumns(df, names) ==
    [index |-> df.index,
     cols  |-> SelectSeq(df.cols, LAMBDA c : c.name \notin names)]

\* Mutant: dropna() without subset, the rows without any missing value.
DropNaAnywhere(df, name) ==
    TakeRows(df, SelectSeq([i \in 1..NRows(df) |-> i],
                           LAMBDA i : \A c \in 1..Len(df.cols) : df.cols[c].vals[i] # NaN))

\* DataFrame.dropna(subset=[name]): the rows whose value in column name is
\* not missing.
DropNa(df, name) ==
    LET v == Col(df, name)
    IN  TakeRows(df, SelectSeq([i \in 1..NRows(df) |-> i], LAMBDA i : v[i] # NaN))

\* DataFrame.iloc[:, lo:hi]: the columns at the zero-based positions lo..hi-1,
\* clipped to the columns there are.
ILocColumns(df, lo, hi) ==
    [index |-> df.index,
     cols  |-> SubSeq(df.cols, lo + 1, IF hi < Len(df.cols) THEN hi ELSE Len(df.cols))]

\* df[names]: the named columns, in the order of names.
SelectColumns(df, names) ==
    [index |-> df.index,
     cols  |-> [i \in 1..Len(names) |-> [name |-> names[i], vals |-> Col(df, names[i])]]]

\* reset_index(drop=True): the row labels become 0..n-1.
ResetIndex(df) ==
    [index |-> [i \in 1..NRows(df) |-> i - 1], cols |-> df.cols]

\* The value a column holds at row label lab, NaN where the frame has no
\* such row.
AtLabel(df, vals, lab) ==
    IF \E i \in 1..NRows(df) : df.index[i] = lab
    THEN vals[CHOOSE i \in 1..NRows(df) : df.index[i] = lab]
    ELSE NaN

\* pd.concat([a, b], axis=1): the columns of a then those of b, aligned on the
\* row labels (an outer join: the labels of a, then the labels only b has).
ConcatColumns(a, b) ==
    LET extra == SelectSeq(b.index, LAMBDA lab : ~ \E i \in 1..NRows(a) : a.index[i] = lab)
        idx   == a.index \o extra
        align(df, c) == [name |-> c.name,
                         vals |-> [i \in 1..Len(idx) |-> AtLabel(df, c.vals, idx[i])]]
    IN  [index |-> idx,
         cols  |-> [i \in 1..Len(a.cols) |-> align(a, a.cols[i])]
                   \o [i \in 1..Len(b.cols) |-> align(b, b.cols[i])]]

\* DataFrame.isna().sum() over the whole frame: one count per column.
FrameIsNaSum(df) == [i \in 1..Len(df.cols) |-> IsNaSum(df.cols[i].vals)]

(* ------------------------- sklearn transformers ------------------------ *)
\* A numpy array: n rows and the columns' values, without names or labels.

Array(df) == [n |-> NRows(df), cols |-> [i \in 1..Len(df.cols) |-> df.cols[i].vals]]

\* Insertion of x into the ascending sequence s.
RECURSIVE Insert(_, _)
Insert(x, s) ==
    IF s = <<>> THEN <<x>>
    ELSE IF FracLeq(x, Head(s)) THEN <<x>> \o s
    ELSE <<Head(s)>> \o Insert(x, Tail(s))

RECURSIVE Sorted(_)
Sorted(s) == IF s = <<>> THEN <<>> ELSE Insert(Head(s), Sorted(Tail(s)))

Mean(vals) == FracDiv(FracSum(vals), Num(Len(vals)))

\* The middle value, or the mean of the two middle values.
Median(vals) ==
    LET s == Sorted(vals)
        k == Len(vals)
    IN  IF k % 2 = 1 THEN s[(k + 1) \div 2]
        ELSE FracDiv(FracAdd(s[k \div 2], s[k \div 2 + 1]), Num(2))

Count(vals, x) == Len(SelectSeq(vals, LAMBDA v : v = x))

\* The most frequent value; among equally frequent ones the smallest.
MostFrequent(vals) ==
    LET best == {x \in Range(vals) : \A y \in Range(vals) : Count(vals, y) <= Count(vals, x)}
    IN  CHOOSE x \in best : \A y \in best : FracLeq(x, y)

\* The strategies SimpleImputer accepts.
ImputerStrategies == {"mean", "median", "most_frequent", "constant"}

\* SimpleImputer.statistics_ of one column: NaN for a column with no value
\* under every strategy but "constant".
Statistic(strategy, fill, vals) ==
    LET nn == NotNa(vals)
    IN  IF strategy = "constant" THEN Num(fill)
        ELSE IF nn = <<>> THEN NaN
        ELSE IF strategy = "mean" THEN Mean(nn)
        ELSE IF strategy = "median" THEN Median(nn)
        ELSE MostFrequent(nn)

\* One column with its missing values replaced by stat.
FillNa(vals, stat) == [i \in 1..Len(vals) |-> IF vals[i] = NaN THEN stat ELSE vals[i]]

\* SimpleImputer(strategy, fill_value).fit_transform(X): an unknown strategy
\* and an X without rows are ValueErrors; a column without any value is
\* discarded (its statistic is NaN); the others have their missing values
\* replaced by the column's statistic.
SimpleImputer(strategy, fill, X) ==
    IF strategy \notin ImputerStrategies \/ X.n = 0
    THEN [err |-> "ValueError", arr |-> X]
    ELSE LET kept == SelectSeq(X.cols, LAMBDA v : Statistic(strategy, fill, v) # NaN)
         IN  [err |-> "",
              arr |-> [n |-> X.n,
                       cols |-> [i \in 1..Len(kept) |->
                                   FillNa(kept[i], Statistic(strategy, fill, kept[i]))]]]

\* StandardScaler on one column: (x - mean) / std with the population
\* standard deviation, and std taken as 1 for a constant column.
StandardScale(vals) ==
    LET mu  == Mean(vals)
        dev == [i \in 1..Len(vals) |-> FracSub(vals[i], mu)]
        var == Mean([i \in 1..Len(vals) |-> FracMul(dev[i], dev[i])])
    IN  [i \in 1..Len(vals) |->
           IF var.n = 0 THEN [sgn |-> 0, sq |-> Num(0)]
           ELSE [sgn |-> Sign(dev[i].n), sq |-> FracDiv(FracMul(dev[i], dev[i]), var)]]

\* MinMaxScaler on one column: (x - min) / (max - min), the range taken as 1
\* for a constant column.
MinMaxScale(vals) ==
    LET s  == Sorted(vals)
        lo == s[1]
        hi == s[Len(s)]
        rg == IF hi = lo THEN Num(1) ELSE FracSub(hi, lo)
    IN  [i \in 1..Len(vals) |-> FracDiv(FracSub(vals[i], lo), rg)]

\* scaler.fit_transform(X) for the scaler object lines 158-161 chose.
Scaler(scaling, X) ==
    [n |-> X.n,
     cols |-> [i \in 1..Len(X.cols) |->
                 IF scaling = "standard" THEN StandardScale(X.cols[i])
                 ELSE MinMaxScale(X.cols[i])]]

\* np.hstack of the transformers' outputs.
HStack(A, B) == [n |-> A.n, cols |-> A.cols \o B.cols]

\* pd.DataFrame(arr, columns=names): a frame labelled 0..n-1.
FrameOf(arr, names) ==
    [index |-> [i \in 1..arr.n |-> i - 1],
     cols  |-> [i \in 1..Len(names) |-> [name |-> names[i], vals |-> arr.cols[i]]]]

(* --------------------------- the source table -------------------------- *)
\* The schema: the four identifier columns and the first three feature
\* columns of the 74 the script names.
Schema ==
    <<"Cast Count", "Bottle Count", "Station ID", "Depth ID",
      "Depth", "Temperature", "Salinity">>

\* The cutoff between categorical and continuous columns.
UniqueCutoff == 6

\* The number of leading identifier columns.
IdColumns == 4

RowCounts == {SmallRows, MaxRows}

\* The value of identifier column c at row i: different in every cell.
IdValue(c, i) == Num(100 * c + i)

\* An identifier column; the column nullId misses its value at row 2.
IdColumn(c, N, nullId) ==
    [i \in 1..N |-> IF c = nullId /\ i = 2 THEN NaN ELSE IdValue(c, i)]

\* A column of N different values base+1 .. base+N, missing at the rows of mask.
Ramp(N, base, mask) == [i \in 1..N |-> IF i \in mask THEN NaN ELSE Num(base + i)]

\* A column of the repeating codes 2, 2, 1, ..., missing at the rows of mask.
Flags(N, mask) == [i \in 1..N |-> IF i \in mask THEN NaN ELSE Num(1 + ((i * i) % 3))]

DepthMasks(N) == {{}, {1}, {1, 2}, 1..N}

TemperatureMasks(N) == {{}, {N}}

SalinityMasks(N) == {{}, {1}, {N}, 1..N}

\* The table read from bottle.csv and renamed (lines 30 and 58): rows
\* labelled 0..N-1.
SourceTable(N, nullId, dm, tkind, tm, sm) ==
    [index |-> [i \in 1..N |-> i - 1],
     cols  |-> [c \in 1..Len(Schema) |->
                  [name |-> Schema[c],
                   vals |-> IF c <= IdColumns THEN IdColumn(c, N, nullId)
                            ELSE IF Schema[c] = "Depth" THEN Ramp(N, 0, dm)
                            ELSE IF Schema[c] = "Temperature"
                                 THEN (IF tkind = "ramp" THEN Ramp(N, 10, tm) ELSE Flags(N, tm))
                            ELSE Ramp(N, 30, sm)]]]

\* The identifier column that misses a value: none (0), the first or the last.
NullIds == {0, 1, IdColumns}

TablesOf(N) ==
    {SourceTable(N, nullId, dm, tkind, tm, sm) :
        nullId \in NullIds, dm \in DepthMasks(N), tkind \in {"ramp", "flag"},
        tm \in TemperatureMasks(N), sm \in SalinityMasks(N)}

SourceTables == UNION {TablesOf(N) : N \in RowCounts}

(* ----------------------------- parameters ------------------------------ *)
\* drop_threshold in hundredths of a percent: 0.01, 33.33, 70 and 100.
DropThresholds == {1, 3333, 7000, 10000}

\* The documented strategies, one more that SimpleImputer knows, and one it
\* does not.
NumStrategies == {"mean", "median", "constant", "most_frequent", "mode"}

CatStrategies == {"most_frequent", "median"}

Scalings == {"standard", "normal", "robust"}

\* The default fill_value of line 96.
DefaultFill == -999

FillValues == {DefaultFill, 4}

\* The arguments of a call; fill_value is varied where it is read.
Arguments ==
    {a \in [drop_threshold : DropThresholds, num_strategy : NumStrategies,
            cat_strategy : CatStrategies, fill_value : FillValues, scaling : Scalings] :
        a.num_strategy # "constant" => a.fill_value = DefaultFill}

(* ------------------------------- state --------------------------------- *)
VARIABLES
    heap,                \* the data frame objects: "bottle_df" and the "copy"
    data,                \* the object the local name data is bound to
    args,                \* the arguments of the running call
    pc,                  \* the next step of the call, "returned" or "raised"
    error,               \* the exception that ended the call, "" if none
    new_data,            \* the feature columns, continuous ones first
    num_attributes,      \* names of the continuous columns
    cat_attributes,      \* names of the categorical columns
    num_imputed,         \* numerical pipeline after its step "imputer"
    num_scaled,          \* numerical pipeline after its step "scaler"
    prepared_bottle_df,  \* the transformed feature columns
    prepared_df,         \* the table the call returns
    loaded,              \* the table as it was loaded (history)
    prev                 \* an earlier call: its arguments and outcome (history)

vars == <<heap, data, args, pc, error, new_data, num_attributes, cat_attributes,
          num_imputed, num_scaled, prepared_bottle_df, prepared_df, loaded, prev>>

locals == <<new_data, num_attributes, cat_attributes, num_imputed, num_scaled,
            prepared_bottle_df, prepared_df>>

bottle_df == heap["bottle_df"]

EmptyArray == [n |-> 0, cols |-> <<>>]

NoCall == [called |-> FALSE]

InitLocals ==
    /\ data = "bottle_df"
    /\ pc = "copy"
    /\ error = ""
    /\ new_data = EmptyFrame
    /\ num_attributes = <<>>
    /\ cat_attributes = <<>>
    /\ num_imputed = EmptyArray
    /\ num_scaled = EmptyArray
    /\ prepared_bottle_df = EmptyFrame
    /\ prepared_df = EmptyFrame

\* bottle_df is loaded with one of tables (lines 30-58) and preprocess_data
\* is called with one of arguments.
InitWith(tables, arguments) ==
    /\ \E t \in tables : heap = [o \in {"bottle_df", "copy"} |->
                                   IF o = "bottle_df" THEN t ELSE EmptyFrame]
    /\ loaded = heap["bottle_df"]
    /\ args \in arguments
    /\ prev = NoCall
    /\ InitLocals

Init == InitWith(SourceTables, Arguments)

\* The call ends with the exception e.
Raise(e) == pc' = "raised" /\ error' = e

(* ------------------------------ the call ------------------------------- *)

\* Mutant: no copy, the same object.
SameObject(obj) == obj

\* The object DataFrame.copy() returns: a new one.
CopyOf(obj) == "copy"

\* Line 106: data = bottle_df.copy().
Copy ==
    /\ pc = "copy"
    /\ data' = CopyOf("bottle_df")
    /\ heap' = [heap EXCEPT ![CopyOf("bottle_df")] = heap["bottle_df"]]
    /\ pc' = "drop_columns"
    /\ UNCHANGED <<args, error, locals, loaded, prev>>

\* Mutant: the fraction missing / rows, not multiplied by 100.
FractionMissing(missing, rows) == (200 * missing + rows) \div (2 * rows)

\* Line 110: round(missing / rows * 100, 2), as float64 computes it: the
\* quotient and the product each rounded to a double, then the rounding to
\* two decimals (times 100, to the nearest integer, over 100).  The result is
\* that integer: the percentage in hundredths of a percent.
PercentMissing(missing, rows) ==
    Rint(DoubleTimes(DoubleTimes(DoubleDiv(missing, rows), 100), 100))

\* Line 119: the columns whose percentage of missing values is above the
\* threshold.  Both are doubles nearest to a number of hundredths, ordered
\* as those numbers are.
ColumnsToDrop(df, threshold) ==
    {c.name : c \in {c \in Range(df.cols) :
                        PercentMissing(IsNaSum(c.vals), NRows(df)) > threshold}}

\* Lines 110-122: the columns above the threshold are dropped from data, in
\* place.
DropAboveThreshold ==
    /\ pc = "drop_columns"
    /\ heap' = [heap EXCEPT ![data] =
                   DropColumns(heap[data], ColumnsToDrop(heap[data], args.drop_threshold))]
    /\ pc' = "dropna"
    /\ UNCHANGED <<data, args, error, locals, loaded, prev>>

\* Line 125: the rows without a Salinity value are dropped from data, in
\* place; a KeyError when the column Salinity was dropped.
DropNaSalinity ==
    /\ pc = "dropna"
    /\ IF HasColumn(heap[data], "Salinity")
       THEN /\ heap' = [heap EXCEPT ![data] = DropNa(heap[data], "Salinity")]
            /\ pc' = "classify"
            /\ UNCHANGED error
       ELSE /\ Raise("KeyError")
            /\ UNCHANGED heap
    /\ UNCHANGED <<data, args, locals, loaded, prev>>

\* Line 128: the columns after the first four.
FeatureFrame(df) == ILocColumns(df, IdColumns, Len(df.cols))

\* Line 141: the columns with at most UniqueCutoff distinct values.
CatAttributes(df) ==
    SelectSeq(Columns(df), LAMBDA name : NUnique(Col(df, name)) <= UniqueCutoff)

\* Line 142: the columns with more than UniqueCutoff distinct values.
NumAttributes(df) ==
    SelectSeq(Columns(df), LAMBDA name : NUnique(Col(df, name)) > UniqueCutoff)

\* Lines 128-145: the feature columns are split into continuous and
\* categorical ones and put in that order.
Classify ==
    /\ pc = "classify"
    /\ LET features == FeatureFrame(heap[data])
       IN  /\ num_attributes' = NumAttributes(features)
           /\ cat_attributes' = CatAttributes(features)
           /\ new_data' = ConcatColumns(SelectColumns(features, NumAttributes(features)),
                                        SelectColumns(features, CatAttributes(features)))
    /\ pc' = "pipeline"
    /\ UNCHANGED <<heap, data, args, error, num_imputed, num_scaled,
                   prepared_bottle_df, prepared_df, loaded, prev>>

\* Lines 158-161: the scalings that bind the name scaler.
ScalerBound(scaling) == scaling \in {"standard", "normal"}

\* Lines 149-168: the imputers, the scaler and the pipelines are built; the
\* name scaler is unbound at line 164 for any other scaling.
BuildPipeline ==
    /\ pc = "pipeline"
    /\ IF ScalerBound(args.scaling)
       THEN pc' = "num_imputer" /\ UNCHANGED error
       ELSE Raise("UnboundLocalError")
    /\ UNCHANGED <<heap, data, args, locals, loaded, prev>>

\* Mutant: fill_value is not passed on; SimpleImputer's own default is 0.
ImputerWithoutFill(X) == SimpleImputer(args.num_strategy, 0, X)

\* The imputer of the numerical pipeline: fill_value is passed to it when
\* the strategy is "constant" (lines 149-152).
NumericalImputer(X) == SimpleImputer(args.num_strategy, args.fill_value, X)

\* Line 171, transformer "num", step "imputer"; the transformer is skipped
\* when there is no continuous column.
FitNumImputer ==
    /\ pc = "num_imputer"
    /\ IF num_attributes = <<>>
       THEN /\ pc' = "cat_imputer"
            /\ num_imputed' = [n |-> NRows(new_data), cols |-> <<>>]
            /\ num_scaled' = [n |-> NRows(new_data), cols |-> <<>>]
            /\ UNCHANGED error
       ELSE LET r == NumericalImputer(Array(SelectColumns(new_data, num_attributes)))
            IN  /\ IF r.err = "" THEN pc' = "num_scaler" /\ UNCHANGED error
                                 ELSE Raise(r.err)
                /\ num_imputed' = r.arr
                /\ UNCHANGED num_scaled
    /\ UNCHANGED <<heap, data, args, new_data, num_attributes, cat_attributes,
                   prepared_bottle_df, prepared_df, loaded, prev>>

\* Line 171, transformer "num", step "scaler": fit on and applied to the
\* imputer's output.
FitScaler ==
    /\ pc = "num_scaler"
    /\ num_scaled' = Scaler(args.scaling, num_imputed)
    /\ pc' = "cat_imputer"
    /\ UNCHANGED <<heap, data, args, error, new_data, num_attributes, cat_attributes,
                   num_imputed, prepared_bottle_df, prepared_df, loaded, prev>>

\* Mutant: the categorical columns are passed through.
CategoricalPassthrough(X) == [err |-> "", arr |-> X]

\* The imputer of the categorical columns (line 155); it has no fill_value.
CategoricalImputer(X) == SimpleImputer(args.cat_strategy, 0, X)

\* Lines 171-172, transformer "cat" (skipped when there is no categorical
\* column), the stacking of both outputs and the new frame: a ValueError
\* when the imputer fails or when a column it discarded makes the array
\* narrower than the list of names.
FitCatImputer ==
    /\ pc = "cat_imputer"
    /\ LET r == IF cat_attributes = <<>>
                THEN [err |-> "", arr |-> [n |-> NRows(new_data), cols |-> <<>>]]
                ELSE CategoricalImputer(Array(SelectColumns(new_data, cat_attributes)))
           stacked == HStack(num_scaled, r.arr)
           names == num_attributes \o cat_attributes
       IN  IF r.err # "" THEN Raise(r.err) /\ UNCHANGED prepared_bottle_df
           ELSE IF Len(stacked.cols) # Len(names)
                THEN Raise("ValueError") /\ UNCHANGED prepared_bottle_df
           ELSE /\ prepared_bottle_df' = FrameOf(stacked, names)
                /\ pc' = "restore"
                /\ UNCHANGED error
    /\ UNCHANGED <<heap, data, args, new_data, num_attributes, cat_attributes,
                   num_imputed, num_scaled, prepared_df, loaded, prev>>

\* Mutant: the first four columns of the source table instead of data.
ExcludedFromSource(df) == ILocColumns(heap["bottle_df"], 0, IdColumns)

\* Line 175: the first four columns of data.
ExcludedColumns(df) == ILocColumns(df, 0, IdColumns)

\* Lines 175-179: the excluded columns are put back in front, both frames
\* relabelled 0..n-1.
Restore ==
    /\ pc = "restore"
    /\ prepared_df' = ConcatColumns(ResetIndex(ExcludedColumns(heap[data])),
                                    ResetIndex(prepared_bottle_df))
    /\ pc' = "assert"
    /\ UNCHANGED <<heap, data, args, error, new_data, num_attributes, cat_attributes,
                   num_imputed, num_scaled, prepared_bottle_df, loaded, prev>>

\* Line 182: not all(prepared_df.isna().sum()): some column has no missing
\* value.
CompletenessCheck(df) == ~ \A i \in 1..Len(df.cols) : FrameIsNaSum(df)[i] # 0

\* Lines 182-187: the assertion, then the return.
AssertAndReturn ==
    /\ pc = "assert"
    /\ IF CompletenessCheck(prepared_df)
       THEN pc' = "returned" /\ UNCHANGED error
       ELSE Raise("AssertionError")
    /\ UNCHANGED <<heap, data, args, locals, loaded, prev>>

Finished == pc \in {"returned", "raised"}

\* The outcome of the finished call.
Outcome == [called |-> TRUE, args |-> args, error |-> error, table |-> prepared_df]

\* preprocess_data is called again with one of arguments: its locals are
\* new, bottle_df is the global it was left as.  The outcome of the finished
\* call, or that of an earlier one, is remembered.
CallAgain(arguments) ==
    /\ Finished
    /\ prev' \in {Outcome} \cup (IF prev = NoCall THEN {} ELSE {prev})
    /\ args' \in arguments
    /\ heap' = [heap EXCEPT !["copy"] = EmptyFrame]
    /\ data' = "bottle_df"
    /\ pc' = "copy"
    /\ error' = ""
    /\ new_data' = EmptyFrame
    /\ num_attributes' = <<>>
    /\ cat_attributes' = <<>>
    /\ num_imputed' = EmptyArray
    /\ num_scaled' = EmptyArray
    /\ prepared_bottle_df' = EmptyFrame
    /\ prepared_df' = EmptyFrame
    /\ UNCHANGED loaded

Call ==
    \/ Copy
    \/ DropAboveThreshold
    \/ DropNaSalinity
    \/ Classify
    \/ BuildPipeline
    \/ FitNumImputer
    \/ FitScaler
    \/ FitCatImputer
    \/ Restore
    \/ AssertAndReturn

Next == Call

\* One call of preprocess_data on every source table with every argument.
Spec == Init /\ [][Next]_vars

\* The source tables of the sequences of calls: complete identifiers, the
\* column Temperature a complete column of codes.
RepeatTables ==
    UNION {{SourceTable(N, 0, dm, "flag", {}, sm) :
               dm \in DepthMasks(N), sm \in SalinityMasks(N)} : N \in RowCounts}

\* The arguments of the sequences of calls.
RepeatArguments ==
    {a \in Arguments : /\ a.num_strategy \in {"mean", "constant"}
                       /\ a.cat_strategy = "most_frequent"
                       /\ a.fill_value = DefaultFill}

InitRepeat == InitWith(RepeatTables, RepeatArguments)

Recall == CallAgain(RepeatArguments)

NextRepeat == Call \/ Recall

\* Any number of calls of preprocess_data, one after the other.
SpecRepeat == InitRepeat /\ [][NextRepeat]_vars

(* ------------------------------ properties ----------------------------- *)

\* The number of missing cells of a frame.
NullCells(df) == FracSum([i \in 1..Len(df.cols) |-> Num(IsNaSum(df.cols[i].vals))]).n

\* The arguments the docstring and the call contract allow.
ValidArguments ==
    /\ args.drop_threshold > 0 /\ args.drop_threshold <= 10000
    /\ args.num_strategy \in {"mean", "median", "constant"}
    /\ args.cat_strategy = "most_frequent"
    /\ args.scaling \in {"standard", "normal"}

\* The identifier columns of the source table have no missing value.
IdentifiersComplete ==
    \A c \in 1..IdColumns : \A i \in 1..NRows(loaded) : loaded.cols[c].vals[i] # NaN

\* The positions of the source rows that have a Salinity value.
SalinityRows ==
    LET salinity == Col(loaded, "Salinity")
    IN  SelectSeq([i \in 1..NRows(loaded) |-> i], LAMBDA i : salinity[i] # NaN)

\* C1: on a source table whose identifier columns have no missing value and
\* with valid arguments, a returned table has no missing cell.
C1_ReturnedTableComplete ==
    (pc = "returned" /\ IdentifiersComplete /\ ValidArguments)
        => \A c \in 1..Len(prepared_df.cols) : \A i \in 1..NRows(prepared_df) :
               prepared_df.cols[c].vals[i] # NaN

\* C1 witness: such a call returned a table with rows removed, whose
\* continuous and categorical columns both had missing values to impute.
C1_Witness ==
    /\ pc = "returned" /\ IdentifiersComplete /\ ValidArguments
    /\ NRows(prepared_df) < NRows(loaded)
    /\ \E name \in Range(num_attributes) : IsNaSum(Col(new_data, name)) > 0
    /\ \E name \in Range(cat_attributes) : IsNaSum(Col(new_data, name)) > 0

\* C3: a returned table has at most as many rows as the source table, and as
\* many exactly when no source row misses its Salinity value.
C3_RowCount ==
    pc = "returned"
        => /\ NRows(prepared_df) <= NRows(loaded)
           /\ (NRows(prepared_df) = NRows(loaded))
                  <=> (\A i \in 1..NRows(loaded) : Col(loaded, "Salinity")[i] # NaN)

\* C3 witness: a call returned fewer rows than the source table has, another
\* column missing a value in a row that was kept.
C3_Witness ==
    /\ pc = "returned"
    /\ NRows(prepared_df) < NRows(loaded)
    /\ NRows(prepared_df) > 0
    /\ \E i \in Range(SalinityRows) : Col(loaded, "Temperature")[i] = NaN

\* The column pruner has run: data holds the pruned table.
Pruned ==
    pc \notin {"copy", "drop_columns", "dropna"} /\ error # "KeyError"

\* A column with missing cells out of rows is kept by the pruner: its
\* percentage of missing cells, rounded to two decimals, is not above the
\* threshold.  A percentage that is not half way between two hundredths is
\* further from half way (1 / (2 * rows) hundredths at least) than the error
\* of the float arithmetic, and rounds as the exact value does; one exactly
\* half way rounds to the side the float arithmetic of line 110 leaves it on.
RoundedNotAbove(missing, rows, threshold) ==
    \/ 2 * 10000 * missing < (2 * threshold + 1) * rows
    \/ /\ 2 * 10000 * missing = (2 * threshold + 1) * rows
       /\ PercentMissing(missing, rows) <= threshold

\* C2 as claimed (checked where it is least in doubt: valid arguments, a
\* source table with complete identifier columns, a pruned table with rows):
\* in the pruned table (over-threshold columns dropped, rows without
\* Salinity removed) every column's percentage of missing cells is at most
\* drop_threshold.
C2_Original ==
    (Pruned /\ ValidArguments /\ IdentifiersComplete /\ NRows(heap[data]) > 0)
        => \A c \in 1..Len(heap[data].cols) :
               10000 * IsNaSum(heap[data].cols[c].vals) <= args.drop_threshold * NRows(heap[data])

\* C2 amended: every column of the pruned table has, over the rows of the
\* source table (before the rows without Salinity are removed), a percentage
\* of missing cells that rounded to two decimals is at most drop_threshold.
C2_RetainedWithinThreshold ==
    Pruned
        => \A c \in 1..Len(heap[data].cols) :
               RoundedNotAbove(IsNaSum(Col(loaded, heap[data].cols[c].name)),
                               NRows(loaded), args.drop_threshold)

\* C2 witness: the pruner dropped a column and kept one with missing cells.
C2_Witness ==
    /\ Pruned
    /\ Len(heap[data].cols) < Len(loaded.cols)
    /\ \E c \in 1..Len(heap[data].cols) : IsNaSum(Col(loaded, heap[data].cols[c].name)) > 0

IdNames == SubSeq(Schema, 1, IdColumns)

\* The pruner drops no identifier column.
NoIdentifierDropped ==
    \A c \in 1..IdColumns :
        RoundedNotAbove(IsNaSum(loaded.cols[c].vals), NRows(loaded), args.drop_threshold)

\* The square of a standardised value with its sign: increasing in the value.
SignedSquare(v) == FracMul(Num(v.sgn), v.sq)

\* Output value x comes before output value y.
OutputLess(x, y) ==
    IF args.scaling = "standard" THEN FracLess(SignedSquare(x), SignedSquare(y))
    ELSE FracLess(x, y)

\* The first four columns of the returned table are the identifier columns,
\* in order, row i holding the untransformed identifiers of the i-th row of
\* the pruned table, which is the i-th source row with a Salinity value; and
\* the feature values of row i come from that same source row: a
\* categorical cell that was not missing is unchanged, and the continuous
\* output values are ordered as their source values are.
IdentifiersAligned ==
    LET rows == SalinityRows
        Source(name) == Take(Col(loaded, name), rows)
    IN  /\ Len(prepared_df.cols) >= IdColumns
        /\ \A c \in 1..IdColumns :
              /\ prepared_df.cols[c].name = Schema[c]
              /\ prepared_df.cols[c].vals = heap[data].cols[c].vals
              /\ prepared_df.cols[c].vals = Take(loaded.cols[c].vals, rows)
        /\ \A name \in Range(cat_attributes) :
              LET src == Source(name)
                  out == Col(prepared_df, name)
              IN  \A i \in 1..Len(rows) : src[i] # NaN => out[i] = src[i]
        /\ \A name \in Range(num_attributes) :
              LET src == Source(name)
                  out == Col(prepared_df, name)
              IN  \A i, j \in 1..Len(rows) :
                     (src[i] # NaN /\ src[j] # NaN)
                         => (FracLess(src[i], src[j]) <=> OutputLess(out[i], out[j]))

\* C4 as claimed (for calls with valid arguments): every returned table
\* starts with the four identifier columns, untransformed and aligned with
\* the rows of the pruned table.
C4_Original == (pc = "returned" /\ ValidArguments) => IdentifiersAligned

\* C4 amended: when the pruner drops no identifier column, the returned
\* table starts with the four identifier columns, untransformed and aligned
\* with the rows of the pruned table.
C4_IdentifiersPreserved == (pc = "returned" /\ NoIdentifierDropped) => IdentifiersAligned

\* C4 witness: a table was returned whose first source row was removed, with
\* an identifier column that misses a value and with continuous and
\* categorical columns.
C4_Witness ==
    /\ pc = "returned" /\ NoIdentifierDropped
    /\ Col(loaded, "Salinity")[1] = NaN
    /\ ~ IdentifiersComplete
    /\ num_attributes # <<>> /\ cat_attributes # <<>>

\* The classifier has run.
Classified ==
    pc \notin {"copy", "drop_columns", "dropna", "classify"} /\ error # "KeyError"

\* The position of a column in the schema.
SchemaPosition(name) == CHOOSE i \in 1..Len(Schema) : Schema[i] = name

\* The names in s are in schema order.
InSchemaOrder(s) ==
    \A i, j \in 1..Len(s) : i < j => SchemaPosition(s[i]) < SchemaPosition(s[j])

\* The number of distinct values, missing ones not counted, of a column of
\* the pruned table.
Distinct(name) == Cardinality({v \in Range(Col(heap[data], name)) : v # NaN})

\* The two lists partition the columns of the set features by their number
\* of distinct values and keep the schema order.
Partitioned(features) ==
    /\ \A name \in features :
          /\ name \in Range(num_attributes) <=> Distinct(name) > 6
          /\ name \in Range(cat_attributes) <=> Distinct(name) <= 6
    /\ Range(num_attributes) \cap Range(cat_attributes) = {}
    /\ Range(num_attributes) \cup Range(cat_attributes) = features
    /\ Len(num_attributes) = Cardinality(Range(num_attributes))
    /\ Len(cat_attributes) = Cardinality(Range(cat_attributes))
    /\ InSchemaOrder(num_attributes)
    /\ InSchemaOrder(cat_attributes)

\* C5 as claimed (for calls with valid arguments): the lists partition the
\* non-identifier columns that survived pruning.
C5_Original ==
    (Classified /\ ValidArguments) => Partitioned(Range(Columns(heap[data])) \ Range(IdNames))

\* C5 amended: the lists partition the columns of the pruned table after its
\* first four, which are the surviving non-identifier columns when the
\* pruner dropped no identifier column.
C5_Partition ==
    Classified
        => /\ Partitioned({heap[data].cols[i].name : i \in IdColumns + 1..Len(heap[data].cols)})
           /\ NoIdentifierDropped
                 => Partitioned(Range(Columns(heap[data])) \ Range(IdNames))

\* C5 witness: a categorical column with exactly 6 distinct values stands
\* in the schema before a continuous column, one with missing cells.
C5_Witness ==
    /\ Classified
    /\ \E a \in Range(cat_attributes), b \in Range(num_attributes) :
          /\ SchemaPosition(a) < SchemaPosition(b)
          /\ Distinct(a) = 6
          /\ IsNaSum(Col(heap[data], a)) > 0

\* C6: across any sequence of calls bottle_df stays the table that was
\* loaded, and a finished call has the outcome (the exception, the table) of
\* an earlier call with the same arguments.
C6_SourceUnchanged ==
    /\ bottle_df = loaded
    /\ (Finished /\ prev # NoCall /\ prev.args = args)
          => (prev.error = error /\ prev.table = prepared_df)

\* C6 witness: a call that dropped a column and a row of its copy returned,
\* after an earlier call with the same arguments.
C6_Witness ==
    /\ pc = "returned" /\ prev # NoCall /\ prev.args = args
    /\ Len(heap[data].cols) < Len(loaded.cols)
    /\ NRows(heap[data]) < NRows(loaded)

\* Every feature column of the source table is above the threshold.
AllFeaturesAboveThreshold ==
    \A c \in IdColumns + 1..Len(loaded.cols) :
        ~ RoundedNotAbove(IsNaSum(loaded.cols[c].vals), NRows(loaded), args.drop_threshold)

\* C7 as claimed (for valid arguments and complete identifier columns): when
\* every feature column is above the threshold the call does not raise and
\* returns the identifier columns only.
C7_Claim ==
    (Finished /\ ValidArguments /\ IdentifiersComplete /\ AllFeaturesAboveThreshold)
        => (pc = "returned" /\ Columns(prepared_df) = IdNames)

\* C8 as claimed (on the source tables with complete identifier columns): a
\* call with a num_strategy other than mean, median and constant, a
\* cat_strategy other than most_frequent or a scaling other than standard
\* and normal ends with an error.
C8_Claim ==
    (Finished /\ IdentifiersComplete
              /\ (\/ args.num_strategy \notin {"mean", "median", "constant"}
                  \/ args.cat_strategy # "most_frequent"
                  \/ args.scaling \notin {"standard", "normal"}))
        => pc = "raised"

\* C9 as claimed (for valid arguments): a table with a missing cell does not
\* get past the completeness check, so no returned table has one.
C9_Claim ==
    (pc = "returned" /\ ValidArguments) => NullCells(prepared_df) = 0

\* Column src with its missing cells replaced by the number fill.
Filled(src, fill) == [i \in 1..Len(src) |-> IF src[i] = NaN THEN Num(fill) ELSE src[i]]

\* out is the column f rescaled to [0, 1] with f's own minimum and maximum.
IsMinMaxOf(out, f) ==
    \E lo, hi \in Range(f) :
        /\ \A v \in Range(f) : FracLeq(lo, v) /\ FracLeq(v, hi)
        /\ \A i \in 1..Len(f) : FracMul(out[i], FracSub(hi, lo)) = FracSub(f[i], lo)

\* out is the column f standardised with f's own mean and variance:
\* out[i]^2 * sum of squared deviations = n * deviation[i]^2, signs agreeing.
IsStandardOf(out, f) ==
    LET n   == Len(f)
        mu  == FracDiv(FracSum(f), Num(n))
        dev == [i \in 1..n |-> FracSub(f[i], mu)]
        ss  == FracSum([i \in 1..n |-> FracMul(dev[i], dev[i])])
    IN  \A i \in 1..n :
           /\ out[i].sgn = Sign(dev[i].n)
           /\ FracMul(out[i].sq, ss) = FracMul(Num(n), FracMul(dev[i], dev[i]))

\* out is the column src with every missing cell replaced by one value
\* between the column's least and greatest value, the other cells unchanged.
IsImputedOnly(out, src) ==
    /\ \A i \in 1..Len(src) : src[i] # NaN => out[i] = src[i]
    /\ \A i, j \in 1..Len(src) : (src[i] = NaN /\ src[j] = NaN) => out[i] = out[j]
    /\ \A i \in 1..Len(src) :
          src[i] = NaN => \E lo, hi \in Range(NotNa(src)) :
                              FracLeq(lo, out[i]) /\ FracLeq(out[i], hi)

\* C10: the continuous columns are imputed before they are scaled (when the
\* scaler is about to run the imputer's output has no missing cell and,
\* with num_strategy "constant", holds fill_value in every cell that was
\* missing); the scaler is fit on and applied to the whole filled column;
\* the categorical columns are imputed and not scaled.
C10_ImputeThenScale ==
    /\ pc = "num_scaler"
          => /\ num_scaled = EmptyArray
             /\ \A j \in 1..Len(num_attributes) :
                   /\ \A i \in 1..num_imputed.n : num_imputed.cols[j][i] # NaN
                   /\ args.num_strategy = "constant"
                         => num_imputed.cols[j]
                              = Filled(Col(new_data, num_attributes[j]), args.fill_value)
    /\ (pc \in {"cat_imputer", "restore", "assert", "returned"} /\ args.num_strategy = "constant")
          => \A j \in 1..Len(num_attributes) :
                LET f == Filled(Col(new_data, num_attributes[j]), args.fill_value)
                IN  IF args.scaling = "normal" THEN IsMinMaxOf(num_scaled.cols[j], f)
                    ELSE IsStandardOf(num_scaled.cols[j], f)
    /\ pc \in {"restore", "assert", "returned"}
          => /\ \A j \in 1..Len(num_attributes) :
                   Col(prepared_bottle_df, num_attributes[j]) = num_scaled.cols[j]
             /\ \A name \in Range(cat_attributes) :
                   IsImputedOnly(Col(prepared_bottle_df, name), Col(new_data, name))

\* C10 witness: a call with num_strategy "constant" returned a table with a
\* continuous and a categorical column that both had missing cells.
C10_Witness ==
    /\ pc = "returned" /\ args.num_strategy = "constant"
    /\ \E name \in Range(num_attributes) : IsNaSum(Col(new_data, name)) > 0
    /\ \E name \in Range(cat_attributes) : IsNaSum(Col(new_data, name)) > 0

====
